---------------------------- MODULE Spec2Model ----------------------------
(***************************************************************************)
(* Model of src/mqtt.py: the MQTT <-> WebSocket bridge of the iPixel CLI.  *)
(*                                                                         *)
(* Python strings are sequences of one-character strings, so that upper(), *)
(* startswith(), slicing and f-string formatting are computed, not         *)
(* assumed.  A Python value is a record [t, s, n, l, d]: its type tag and  *)
(* the string, number, list or dict it holds.                              *)
(***************************************************************************)
EXTENDS Integers, Sequences, FiniteSets, TLC

\* ------------------------------------------------------------------------
\* Python values
\* ------------------------------------------------------------------------
EmptyDict == [k \in {} |-> 0]

VStr(s)  == [t |-> "str",  s |-> s,    n |-> 0, l |-> <<>>, d |-> EmptyDict]
VInt(n)  == [t |-> "int",  s |-> <<>>, n |-> n, l |-> <<>>, d |-> EmptyDict]
VBool(b) == [t |-> "bool", s |-> <<>>, n |-> IF b THEN 1 ELSE 0, l |-> <<>>, d |-> EmptyDict]
VNone    == [t |-> "none", s |-> <<>>, n |-> 0, l |-> <<>>, d |-> EmptyDict]
VList(l) == [t |-> "list", s |-> <<>>, n |-> 0, l |-> l,    d |-> EmptyDict]
VDict(d) == [t |-> "dict", s |-> <<>>, n |-> 0, l |-> <<>>, d |-> d]

PyTrue  == VBool(TRUE)
PyFalse == VBool(FALSE)

\* Python truthiness: bool(v).
Truthy(v) ==
    CASE v.t = "str"  -> v.s # <<>>
      [] v.t = "int"  -> v.n # 0
      [] v.t = "bool" -> v.n = 1
      [] v.t = "none" -> FALSE
      [] v.t = "list" -> v.l # <<>>
      [] v.t = "dict" -> DOMAIN v.d # {}

\* ------------------------------------------------------------------------
\* Strings
\* ------------------------------------------------------------------------
LowerCase == <<"a","b","c","d","e","f","g","h","i","j","k","l","m",
               "n","o","p","q","r","s","t","u","v","w","x","y","z">>
UpperCase == <<"A","B","C","D","E","F","G","H","I","J","K","L","M",
               "N","O","P","Q","R","S","T","U","V","W","X","Y","Z">>
Digits    == <<"0","1","2","3","4","5","6","7","8","9">>

UpperChar(c) ==
    IF \E i \in DOMAIN LowerCase : LowerCase[i] = c
    THEN UpperCase[CHOOSE i \in DOMAIN LowerCase : LowerCase[i] = c]
    ELSE c

\* str.upper()
Upper(s) == [i \in DOMAIN s |-> UpperChar(s[i])]

\* str.startswith(p)
StartsWith(s, p) == Len(s) >= Len(p) /\ SubSeq(s, 1, Len(p)) = p

\* s[k:]
SliceFrom(s, k) == IF k >= Len(s) THEN <<>> ELSE SubSeq(s, k + 1, Len(s))

IsDigit(c) == \E i \in DOMAIN Digits : Digits[i] = c
DigitVal(c) == (CHOOSE i \in DOMAIN Digits : Digits[i] = c) - 1

RECURSIVE NatToStr(_)
NatToStr(n) == IF n < 10 THEN <<Digits[n + 1]>>
               ELSE NatToStr(n \div 10) \o <<Digits[(n % 10) + 1]>>

\* str(int)
IntToStr(n) == IF n < 0 THEN <<"-">> \o NatToStr(0 - n) ELSE NatToStr(n)

RECURSIVE StrToNat(_)
StrToNat(s) == IF Len(s) = 1 THEN DigitVal(s[1])
               ELSE 10 * StrToNat(SubSeq(s, 1, Len(s) - 1)) + DigitVal(s[Len(s)])

\* repr() of a list element and str() of a value, as Python renders them.
ScalarStr(v) ==
    CASE v.t = "str"  -> v.s
      [] v.t = "int"  -> IntToStr(v.n)
      [] v.t = "bool" -> IF v.n = 1 THEN <<"T","r","u","e">> ELSE <<"F","a","l","s","e">>
      [] v.t = "none" -> <<"N","o","n","e">>
      [] OTHER        -> <<"{","}">>

ScalarRepr(v) == IF v.t = "str" THEN <<"'">> \o v.s \o <<"'">> ELSE ScalarStr(v)

RECURSIVE JoinRepr(_)
JoinRepr(l) == IF l = <<>> THEN <<>>
               ELSE IF Len(l) = 1 THEN ScalarRepr(l[1])
               ELSE ScalarRepr(l[1]) \o <<",", " ">> \o JoinRepr(Tail(l))

\* str(v)
PyStr(v) == IF v.t = "list" THEN <<"[">> \o JoinRepr(v.l) \o <<"]">> ELSE ScalarStr(v)


\* ------------------------------------------------------------------------
\* Payload decoding (handle_set_payload, lines 180-186)
\* ------------------------------------------------------------------------
\* An MQTT payload is either scalar text (its characters) or the JSON text of
\* a list or object, carried here as the value json.loads gives for it.
TextPayload(raw) == [kind |-> "text", raw |-> raw, v |-> VNone]
JsonPayload(v)   == [kind |-> "json", raw |-> <<>>, v |-> v]

IsNatLit(s) == /\ s # <<>>
               /\ \A i \in DOMAIN s : IsDigit(s[i])
               /\ (Len(s) = 1 \/ s[1] # "0")

IsIntLit(s) == IsNatLit(s) \/ (Len(s) >= 2 /\ s[1] = "-" /\ IsNatLit(Tail(s)))

IsQuoted(s) == /\ Len(s) >= 2
               /\ s[1] = "\"" /\ s[Len(s)] = "\""
               /\ \A i \in 2..(Len(s) - 1) : s[i] \notin {"\"", "\\"}

\* json.loads on scalar text: integers, true/false/null and plain quoted
\* strings parse; anything else raises.
JsonScalarOk(s) == \/ s \in {<<"t","r","u","e">>, <<"f","a","l","s","e">>, <<"n","u","l","l">>}
                   \/ IsIntLit(s)
                   \/ IsQuoted(s)

JsonScalar(s) ==
    CASE s = <<"t","r","u","e">>     -> PyTrue
      [] s = <<"f","a","l","s","e">> -> PyFalse
      [] s = <<"n","u","l","l">>     -> VNone
      [] IsNatLit(s)                 -> VInt(StrToNat(s))
      [] IsIntLit(s) /\ ~IsNatLit(s) -> VInt(0 - StrToNat(Tail(s)))
      [] OTHER                       -> VStr(SubSeq(s, 2, Len(s) - 1))

\* try: data = json.loads(payload)  except: data = payload
json_loads(p) ==
    IF p.kind = "json" THEN p.v
    ELSE IF JsonScalarOk(p.raw) THEN JsonScalar(p.raw)
    ELSE VStr(p.raw)

\* ------------------------------------------------------------------------
\* Constants / Defaults (lines 31-68)
\* ------------------------------------------------------------------------
BASE_TOPIC == <<"ipixel", "dev">>
CMD_TOPIC  == BASE_TOPIC \o <<"set">>

Attrs == {"power", "brightness", "speed", "animation", "color", "font",
          "matrix_height", "font_size", "font_offset_x", "font_offset_y"}

TopicKeys == Attrs \cup {"send_text", "clear"}

TOPICS == [k \in TopicKeys |-> BASE_TOPIC \o <<k>>]

DEFAULTS == [k \in Attrs |->
    CASE k = "power"         -> PyFalse
      [] k = "brightness"    -> VInt(80)
      [] k = "speed"         -> VInt(75)
      [] k = "animation"     -> VInt(1)
      [] k = "color"         -> VStr(<<"f","f","f","f","f","f">>)
      [] k = "font"          -> VStr(<<"g","n","u","f","o","n","t">>)
      [] k = "matrix_height" -> VInt(16)
      [] k = "font_size"     -> VNone
      [] OTHER               -> VInt(0)]

\* The characters of a key, for f"{k}=...".
KeyChars(k) ==
    CASE k = "color"         -> <<"c","o","l","o","r">>
      [] k = "speed"         -> <<"s","p","e","e","d">>
      [] k = "animation"     -> <<"a","n","i","m","a","t","i","o","n">>
      [] k = "font"          -> <<"f","o","n","t">>
      [] k = "matrix_height" -> <<"m","a","t","r","i","x","_","h","e","i","g","h","t">>

S_send_text == <<"s","e","n","d","_","t","e","x","t">>
S_led_on    == <<"l","e","d","_","o","n">>
S_led_off   == <<"l","e","d","_","o","f","f">>
S_clear     == <<"c","l","e","a","r">>
S_ping      == <<"p","i","n","g">>
S_textEq    == <<"t","e","x","t","=">>

\* {"command": c, "params": ps}
Command(c, ps) == ("command" :> VStr(c)) @@ ("params" :> VList(ps))
PingCommand    == ("command" :> VStr(S_ping))


\* ------------------------------------------------------------------------
\* WebSocket helpers (lines 75-123)
\* ------------------------------------------------------------------------
\* The receive loops counted, up to this many.
MaxThreads == 3

\* A transport state X: the handle ws (non-null or None), the state of the
\* socket behind it (conn), whether the backing server accepts connections
\* (up), the receive loops started (threads), and what the running handler
\* has done so far: its events (ev), the messages it put on the transport
\* (wire), the value of the last call (ret), and whether the connection was
\* lost under the handler (lost).
NoConn == "none"

Bump(n) == IF n < MaxThreads THEN n + 1 ELSE n

\* lines 75-78: the spawned process serves connections, or fails to.
start_server_once(X, comesUp) ==
    [X EXCEPT !.up = X.up \/ comesUp, !.ev = Append(X.ev, "spawn")]

\* lines 92-101: open a new socket and start a receive loop.
ws_open(X) ==
    IF X.up
    THEN [X EXCEPT !.ws = TRUE, !.conn = "open", !.threads = Bump(X.threads),
                   !.ev = Append(X.ev, "connect_ok"), !.ret = TRUE]
    ELSE [X EXCEPT !.ws = FALSE, !.conn = NoConn,
                   !.ev = Append(X.ev, "connect_fail"), !.ret = FALSE]

\* lines 80-101 without the probe: a handle that is set is taken as live.
ws_connect_NoProbe(X) ==
    LET X0 == [X EXCEPT !.ev = Append(X.ev, "ws_connect")]
    IN  IF X0.ws THEN [X0 EXCEPT !.ev = Append(X0.ev, "probe_ok"), !.ret = TRUE]
        ELSE ws_open(X0)

\* lines 80-101 with the handle closed and reopened on every call
ws_connect_Reopen(X) ==
    LET X0 == [X EXCEPT !.ev = Append(X.ev, "ws_connect")]
    IN  ws_open([X0 EXCEPT !.ws = FALSE, !.conn = NoConn])

\* lines 80-101; every call is logged as "ws_connect".
ws_connect(X) ==
    LET X0 == [X EXCEPT !.ev = Append(X.ev, "ws_connect")]
    IN  IF X0.ws
        THEN IF X0.conn = "open"
             THEN [X0 EXCEPT !.wire = Append(X0.wire, PingCommand),
                             !.ev = Append(X0.ev, "probe_ok"), !.ret = TRUE]
             ELSE ws_open([X0 EXCEPT !.ws = FALSE, !.conn = NoConn,
                                     !.ev = Append(X0.ev, "probe_failed")])
        ELSE ws_open(X0)

\* lines 103-106 with the spawn outside the if.
ensure_server_AlwaysSpawn(X, comesUp) ==
    LET X0 == [X EXCEPT !.ev = Append(X.ev, "ensure")]
        X1 == ws_connect(X0)
        X2 == ws_connect(start_server_once(X1, comesUp))
    IN  [X2 EXCEPT !.ev = Append(X2.ev, "ensured")]

\* lines 103-106; the call is logged from "ensure" to "ensured".
ensure_server(X, comesUp) ==
    LET X0 == [X EXCEPT !.ev = Append(X.ev, "ensure")]
        X1 == ws_connect(X0)
        X2 == IF X1.ret THEN X1
              ELSE ws_connect(start_server_once(X1, comesUp))
    IN  [X2 EXCEPT !.ev = Append(X2.ev, "ensured")]

\* line 116 and the except clause of line 122: the handle is left as it is.
ws_transmit(X, payload) ==
    IF X.conn = "open"
    THEN [X EXCEPT !.wire = Append(X.wire, payload), !.ev = Append(X.ev, "send_ok")]
    ELSE [X EXCEPT !.ev = Append(X.ev, "send_failed")]

\* lines 108-123
ws_send(X, payload) ==
    LET X1 == IF X.ws THEN X ELSE ws_connect(X)
    IN  IF ~X1.ws
        THEN [X1 EXCEPT !.ev = Append(X1.ev, "cannot_send")]
        ELSE ws_transmit(X1, payload)

\* The connection is lost while a handler runs (between two of its calls).
Lose(X, drop) ==
    IF drop /\ X.conn = "open" THEN [X EXCEPT !.conn = "dead", !.lost = TRUE] ELSE X


\* ------------------------------------------------------------------------
\* MQTT helpers (lines 170-266)
\* ------------------------------------------------------------------------
\* lines 170-176: what one call publishes: the per-attribute messages, the
\* aggregate document and the last text.
publish_states(cs, lt) ==
    [attrs |-> [k \in Attrs |-> PyStr(cs[k])], state |-> cs, last_text |-> lt]

\* A handler state H: the State Store (cs), the last text (lt), the
\* transport (X), whether an exception left the handler (raised) and
\* whether it reached publish_states (published).

\* line 254 without .upper()
PowerToken_NoUpper(data) ==
    PyStr(data) \in {<<"O","N">>, <<"1">>, <<"T","R","U","E">>}

\* line 254
PowerToken(data) ==
    Upper(PyStr(data)) \in {<<"O","N">>, <<"1">>, <<"T","R","U","E">>}

\* lines 207: data["params"][0]; subscripting fails on numbers, booleans,
\* None and (with the key 0) on objects.
FirstParamOk(ps) == ps.t \in {"list", "str"}
FirstParam(ps)   == IF ps.t = "list" THEN ps.l[1] ELSE VStr(<<ps.s[1]>>)

\* lines 208-211 without the slice
ExtractText_KeepPrefix(tp) == tp

\* lines 208-211
ExtractText(tp) == IF StartsWith(tp.s, S_textEq) THEN VStr(SliceFrom(tp.s, 5)) ELSE tp

\* lines 193-217: Format 1, the command/params structure.
StructuredCommand(H, d, comesUp, drop) ==
    IF d["command"] = VStr(S_led_on)
    THEN [H EXCEPT !.X = ws_send(H.X, Command(S_led_on, <<>>))]
    ELSE IF d["command"] = VStr(S_led_off)
    THEN [H EXCEPT !.X = ws_send(H.X, Command(S_led_off, <<>>))]
    ELSE IF d["command"] = VStr(S_send_text) /\ Truthy(d["params"])
    THEN IF ~FirstParamOk(d["params"]) \/ FirstParam(d["params"]).t # "str"
         THEN [H EXCEPT !.raised = TRUE]
         ELSE [H EXCEPT !.lt = ExtractText(FirstParam(d["params"])),
                        !.X = ws_send(Lose(ensure_server(H.X, comesUp), drop), d)]
    ELSE H

\* line 232
param_keys == <<"color", "speed", "animation", "font", "matrix_height">>

\* f"{k}={v}"
KeyValue(k, v) == VStr(KeyChars(k) \o <<"=">> \o PyStr(v))

\* lines 234-238 without the two "is not None" tests
RECURSIVE BuildParams_KeepNone(_, _, _)
BuildParams_KeepNone(keys, d, cs) ==
    IF keys = <<>> THEN <<>>
    ELSE LET k == Head(keys)
             rest == BuildParams_KeepNone(Tail(keys), d, cs)
         IN  IF k \in DOMAIN d THEN <<KeyValue(k, d[k])>> \o rest
             ELSE <<KeyValue(k, cs[k])>> \o rest

\* lines 234-238
RECURSIVE BuildParams(_, _, _)
BuildParams(keys, d, cs) ==
    IF keys = <<>> THEN <<>>
    ELSE LET k == Head(keys)
             rest == BuildParams(Tail(keys), d, cs)
         IN  IF k \in DOMAIN d /\ d[k] # VNone THEN <<KeyValue(k, d[k])>> \o rest
             ELSE IF cs[k] # VNone THEN <<KeyValue(k, cs[k])>> \o rest
             ELSE rest

\* lines 225-227 without the test of line 226
MergeStates_NoGuard(cs, d) ==
    [k \in DOMAIN cs \cup DOMAIN d |-> IF k \in DOMAIN d THEN d[k] ELSE cs[k]]

\* lines 225-227: only the keys current_states already has are assigned.
MergeStates(cs, d) == [k \in DOMAIN cs |-> IF k \in DOMAIN d THEN d[k] ELSE cs[k]]

\* lines 220-244: Format 2, the flat parameter format.
FlatCommand(H, d, comesUp, drop) ==
    LET cs2    == MergeStates(H.cs, d)
        params == <<d["send_text"]>> \o BuildParams(param_keys, d, cs2)
    IN  [H EXCEPT !.lt = d["send_text"],
                  !.cs = cs2,
                  !.X = ws_send(Lose(ensure_server(H.X, comesUp), drop),
                                Command(S_send_text, params))]

\* lines 247-251
DirectText(H, data, comesUp, drop) ==
    IF Truthy(H.cs["power"])
    THEN [H EXCEPT !.lt = data,
                   !.X = ws_send(Lose(ensure_server(H.X, comesUp), drop),
                                 Command(S_send_text, <<data>>))]
    ELSE [H EXCEPT !.lt = data]

\* lines 253-259 with the two sends exchanged
SetPower_Swapped(H, data, comesUp, drop) ==
    LET on == PowerToken(data)
        X1 == Lose(ensure_server(H.X, comesUp), drop)
    IN  [H EXCEPT !.cs = [H.cs EXCEPT !["power"] = VBool(on)],
                  !.X = IF on THEN ws_send(X1, Command(S_clear, <<>>))
                        ELSE ws_send(X1, Command(S_send_text, <<VStr(<<" ">>)>>))]

\* lines 253-259
SetPower(H, data, comesUp, drop) ==
    LET on == PowerToken(data)
        X1 == Lose(ensure_server(H.X, comesUp), drop)
    IN  [H EXCEPT !.cs = [H.cs EXCEPT !["power"] = VBool(on)],
                  !.X = IF on THEN ws_send(X1, Command(S_send_text, <<VStr(<<" ">>)>>))
                        ELSE ws_send(X1, Command(S_clear, <<>>))]

\* lines 262-264 with the payload's text stored in place of the decoded value
SetAttribute_AsText(H, key, data) == [H EXCEPT !.cs = [H.cs EXCEPT ![key] = VStr(PyStr(data))]]

\* lines 262-264
SetAttribute(H, key, data) == [H EXCEPT !.cs = [H.cs EXCEPT ![key] = data]]

\* lines 189-264 with a branch for the key "clear" that sends the clear
\* command
Dispatch_ClearKey(H, key, data, comesUp, drop) ==
    IF key = "set" /\ data.t = "dict"
    THEN IF "command" \in DOMAIN data.d /\ "params" \in DOMAIN data.d
         THEN StructuredCommand(H, data.d, comesUp, drop)
         ELSE IF "send_text" \in DOMAIN data.d
         THEN FlatCommand(H, data.d, comesUp, drop)
         ELSE H
    ELSE IF key = "send_text" THEN DirectText(H, data, comesUp, drop)
    ELSE IF key = "power" THEN SetPower(H, data, comesUp, drop)
    ELSE IF key \in DOMAIN H.cs THEN SetAttribute(H, key, data)
    ELSE IF key = "clear"
    THEN [H EXCEPT !.X = ws_send(ensure_server(H.X, comesUp), Command(S_clear, <<>>))]
    ELSE H

\* lines 189-264: the branch taken for a key and the decoded payload.
Dispatch(H, key, data, comesUp, drop) ==
    IF key = "set" /\ data.t = "dict"
    THEN IF "command" \in DOMAIN data.d /\ "params" \in DOMAIN data.d
         THEN StructuredCommand(H, data.d, comesUp, drop)
         ELSE IF "send_text" \in DOMAIN data.d
         THEN FlatCommand(H, data.d, comesUp, drop)
         ELSE H
    ELSE IF key = "send_text" THEN DirectText(H, data, comesUp, drop)
    ELSE IF key = "power" THEN SetPower(H, data, comesUp, drop)
    ELSE IF key \in DOMAIN H.cs THEN SetAttribute(H, key, data)
    ELSE H

\* lines 178-266
handle_set_payload(H, key, payload, comesUp, drop) ==
    LET H1 == Dispatch(H, key, json_loads(payload), comesUp, drop)
    IN  IF H1.raised THEN H1 ELSE [H1 EXCEPT !.published = TRUE]

\* ------------------------------------------------------------------------
\* Topic resolution (on_message, lines 280-304)
\* ------------------------------------------------------------------------
RECURSIVE JoinPath(_)
JoinPath(segs) == IF Len(segs) = 1 THEN segs[1]
                  ELSE segs[1] \o "/" \o JoinPath(Tail(segs))

IsSubtopic(topic) == Len(topic) > Len(CMD_TOPIC) /\ SubSeq(topic, 1, Len(CMD_TOPIC)) = CMD_TOPIC

NoKey == "<none>"

\* The key on_message hands to handle_set_payload, or NoKey when it hands
\* the message to nothing.
ResolveKey(topic) ==
    IF topic = CMD_TOPIC THEN "set"
    ELSE IF IsSubtopic(topic) THEN JoinPath(SubSeq(topic, Len(CMD_TOPIC) + 1, Len(topic)))
    ELSE IF topic = TOPICS["send_text"] THEN "send_text"
    ELSE IF \E k \in TopicKeys : topic = TOPICS[k] \o <<"set">>
    THEN CHOOSE k \in TopicKeys : topic = TOPICS[k] \o <<"set">>
    ELSE NoKey


\* ------------------------------------------------------------------------
\* Inputs
\* ------------------------------------------------------------------------
\* Control-plane messages handled in one run.
MaxMsgs == 2

T_Hello == <<"H","e","l","l","o">>
T_Hi    == <<"H","i">>
T_red   == <<"f","f","0","0","0","0">>

PowerTokens == {<<"o","n">>, <<"O","N">>, <<"1">>, <<"t","r","u","e">>, <<"T","R","U","E">>,
                <<"O","n">>, <<"O","F","F">>, <<"\"","o","n","\"">>}

Obj(d) == JsonPayload(VDict(d))

StructuredPayloads ==
    { Obj(Command(S_send_text, <<VStr(S_textEq \o T_Hello), VStr(<<"c","o","l","o","r","=">> \o T_red)>>)),
      Obj(Command(S_send_text, <<VStr(T_Hi)>>)),
      Obj(Command(S_send_text, <<>>)),
      Obj(Command(S_send_text, <<VInt(5)>>)),
      Obj(Command(S_led_on, <<>>)),
      Obj(Command(S_led_off, <<>>)),
      Obj(Command(S_clear, <<>>)) }

FlatPayloads ==
    { Obj(("send_text" :> VStr(T_Hello)) @@ ("color" :> VStr(T_red))),
      Obj(("send_text" :> VStr(T_Hi)) @@ ("power" :> VStr(<<"O","F","F">>)) @@ ("speed" :> VNone)),
      Obj(("send_text" :> VInt(42))) }

OtherCmdPayloads == { Obj(("brightness" :> VInt(50))), TextPayload(T_Hi) }

AttrPayload(k) ==
    CASE k = "brightness" -> {TextPayload(<<"5","0">>), TextPayload(<<"a","b","c">>)}
      [] k = "color"      -> {TextPayload(T_red), TextPayload(<<"n","u","l","l">>)}
      [] k = "font"       -> {TextPayload(<<"\"","x","\"">>)}
      [] k = "font_offset_x" -> {TextPayload(<<"t","r","u","e">>)}
      [] k = "speed"      -> {TextPayload(<<"9","0">>)}
      [] OTHER            -> {TextPayload(<<"1">>)}

\* The messages delivered to on_message: topic and payload.
Msg(topic, payload) == [topic |-> topic, payload |-> payload]

Messages ==
    {Msg(CMD_TOPIC, p) : p \in StructuredPayloads \cup FlatPayloads \cup OtherCmdPayloads}
    \cup {Msg(TOPICS["power"] \o <<"set">>, TextPayload(t)) : t \in PowerTokens}
    \cup {Msg(CMD_TOPIC \o <<"power">>, TextPayload(t)) : t \in {<<"O","N">>, <<"O","F","F">>}}
    \cup {Msg(TOPICS["send_text"], TextPayload(t)) : t \in {T_Hello, <<"4","2">>}}
    \cup {Msg(CMD_TOPIC \o <<"send_text">>, JsonPayload(VList(<<VStr(T_Hi)>>)))}
    \cup {Msg(TOPICS["send_text"] \o <<"set">>, TextPayload(T_Hi))}
    \cup {Msg(CMD_TOPIC \o <<"set">>, Obj(("send_text" :> VStr(T_Hello)) @@ ("color" :> VStr(T_red))))}
    \cup UNION {{Msg(TOPICS[k] \o <<"set">>, p) : p \in AttrPayload(k)} : k \in Attrs \ {"power"}}
    \cup {Msg(TOPICS["clear"] \o <<"set">>, TextPayload(<<"1">>)),
          Msg(CMD_TOPIC \o <<"clear">>, TextPayload(<<"1">>)),
          Msg(CMD_TOPIC \o <<"a", "b">>, TextPayload(<<"1">>)),
          Msg(BASE_TOPIC \o <<"state">>, TextPayload(<<"1">>))}

\* ------------------------------------------------------------------------
\* State
\* ------------------------------------------------------------------------
VARIABLES
    current_states,  \* line 67: the State Store
    last_text,       \* line 68
    ws,              \* line 69: TRUE when the handle is not None
    conn,            \* the socket behind the handle: "none", "open" or "dead"
    serverUp,        \* the backing server accepts connections
    recvThreads,     \* receive loops started (line 96); none ever returns
    periodic,        \* the periodic task has passed its ensure_server (line 323)
    pub,             \* what the last publish_states call published
    last,            \* the last step: its input and what it did
    failedSend,      \* the latest ws_send did not transmit its message
    msgs,            \* messages handled so far
    thr              \* the threads of the interleaved specification

vars == <<current_states, last_text, ws, conn, serverUp, recvThreads, periodic,
          pub, last, failedSend, msgs, thr>>

\* The record of a step: the operation, its key and payload, the events and
\* transmitted messages, whether it raised or published, the power, the
\* connection and failedSend as they were before it, whether the connection
\* was lost while it ran, and what a receive loop met.  A message step
\* also keeps the State Store and the last text as they were before it (cs0,
\* lt0).
Step(op, key, payload, ev, wire, raised, published, power0, conn0, failed0, lost, recv) ==
    [op |-> op, key |-> key, payload |-> payload, ev |-> ev, wire |-> wire,
     raised |-> raised, published |-> published, power0 |-> power0,
     conn0 |-> conn0, failed0 |-> failed0, lost |-> lost, recv |-> recv,
     cs0 |-> <<>>, lt0 |-> <<>>]

Quiet(op) == Step(op, NoKey, TextPayload(<<>>), <<>>, <<>>, FALSE, FALSE, FALSE,
                  NoConn, FALSE, FALSE, "")

Has(ev, e) == \E i \in DOMAIN ev : ev[i] = e

\* failedSend after a step with events ev.
FailedAfter(ev) ==
    IF Has(ev, "send_ok") THEN FALSE
    ELSE IF Has(ev, "send_failed") \/ Has(ev, "cannot_send") THEN TRUE
    ELSE failedSend

Transport == [ws |-> ws, conn |-> conn, up |-> serverUp, threads |-> recvThreads,
              ev |-> <<>>, wire |-> <<>>, ret |-> FALSE, lost |-> FALSE]

Handler == [cs |-> current_states, lt |-> last_text, X |-> Transport,
            raised |-> FALSE, published |-> FALSE]

\* The iteration order of current_states (lines 53-64, 171).
AttrOrder == <<"power", "brightness", "speed", "animation", "color", "font",
               "matrix_height", "font_size", "font_offset_x", "font_offset_y">>

NotYet == <<"?">>

\* The threads of the interleaved specification: M runs the message
\* callback, P runs periodic_tasks.  pc is each thread's place, back the
\* place its ws_connect returns to, ret what ws_connect returned, cmd the
\* object M is handling, todo the keys its update loop has still to visit,
\* i the attribute P's publish_states publishes next, snap what that call
\* has published so far, and whole the State Stores seen between
\* dispatches.
NoThreads ==
    [pc   |-> [t \in {"M", "P"} |-> IF t = "M" THEN "idle" ELSE "start"],
     back |-> [t \in {"M", "P"} |-> "none"],
     ret  |-> [t \in {"M", "P"} |-> FALSE],
     cmd  |-> EmptyDict,
     todo |-> <<>>,
     i    |-> 1,
     snap |-> [attrs |-> [k \in Attrs |-> NotYet], state |-> DEFAULTS,
               last_text |-> VStr(<<>>), done |-> FALSE],
     whole |-> {DEFAULTS}]

Init ==
    /\ current_states = DEFAULTS
    /\ last_text = VStr(<<>>)
    /\ ws = FALSE
    /\ conn = NoConn
    /\ serverUp \in BOOLEAN
    /\ recvThreads = 0
    /\ periodic = FALSE
    /\ pub = publish_states(DEFAULTS, VStr(<<>>))
    /\ last = Quiet("init")
    /\ failedSend = FALSE
    /\ msgs = 0
    /\ thr = NoThreads

SetTransport(X) ==
    /\ ws' = X.ws
    /\ conn' = X.conn
    /\ serverUp' = X.up
    /\ recvThreads' = X.threads

\* ------------------------------------------------------------------------
\* Steps, each handler run to its end
\* ------------------------------------------------------------------------
\* lines 280-304, with handle_set_payload (178-266)
on_message(m, comesUp, drop) ==
    /\ msgs < MaxMsgs
    /\ \E key \in {ResolveKey(m.topic)} :
       \E H \in {IF key = NoKey THEN Handler
                 ELSE handle_set_payload(Handler, key, m.payload, comesUp, drop)} :
        /\ msgs' = msgs + 1
        /\ current_states' = H.cs
        /\ last_text' = H.lt
        /\ SetTransport(H.X)
        /\ pub' = IF H.published THEN publish_states(H.cs, H.lt) ELSE pub
        /\ last' = [Step("message", key, m.payload, H.X.ev, H.X.wire,
                         H.raised, H.published, Truthy(current_states["power"]),
                         conn, failedSend, H.X.lost, "")
                        EXCEPT !.cs0 = current_states, !.lt0 = last_text]
        /\ failedSend' = FailedAfter(H.X.ev)
        /\ UNCHANGED <<periodic, thr>>

\* The spawned server can come up only when none is up; a server is spawned,
\* and a connection can be lost under a handler, only when the handler uses
\* the transport.
OnMessage ==
    /\ msgs < MaxMsgs
    /\ \E m \in Messages, comesUp \in BOOLEAN, drop \in BOOLEAN :
          /\ comesUp => ~serverUp
          /\ (comesUp \/ drop) => ResolveKey(m.topic) \in {"set", "send_text", "power"}
          /\ on_message(m, comesUp, drop)

\* lines 269-278: the broker connection is (re)established.
on_connect ==
    /\ pub' = publish_states(current_states, last_text)
    /\ UNCHANGED <<current_states, last_text, ws, conn, serverUp, recvThreads,
                   periodic, last, failedSend, msgs, thr>>

\* line 323
PeriodicEnsure(comesUp) ==
    /\ ~periodic
    /\ comesUp => ~serverUp
    /\ \E X \in {ensure_server(Transport, comesUp)} :
        /\ periodic' = TRUE
        /\ SetTransport(X)
        /\ last' = [Quiet("periodic_ensure") EXCEPT !.ev = X.ev, !.wire = X.wire,
                                                    !.conn0 = conn]
        /\ UNCHANGED <<current_states, last_text, pub, failedSend, msgs, thr>>

periodic_ensure == \E comesUp \in BOOLEAN : PeriodicEnsure(comesUp)

\* lines 324-326
periodic_publish ==
    /\ periodic
    /\ pub' = publish_states(current_states, last_text)
    /\ UNCHANGED <<current_states, last_text, ws, conn, serverUp, recvThreads,
                   periodic, last, failedSend, msgs, thr>>

\* What one iteration of a receive loop meets (lines 127-145).
RecvOutcomes ==
    IF ~ws THEN {"no_handle"}
    ELSE IF conn = "open" THEN {"timeout", "bytes", "bad_json", "json"}
    ELSE {"error"}

\* lines 125-145: one iteration of one receive loop.  No outcome writes ws
\* and none leaves the while loop.
ws_receive_thread(outcome, threads) ==
    [threads |-> threads, ws |-> ws, conn |-> conn]

RecvIteration(outcome) ==
    LET R == ws_receive_thread(outcome, recvThreads)
    IN  /\ recvThreads > 0
        /\ recvThreads' = R.threads
        /\ ws' = R.ws
        /\ conn' = R.conn
        /\ last' = [Quiet("recv") EXCEPT !.recv = outcome, !.conn0 = conn]
        /\ UNCHANGED <<current_states, last_text, serverUp, periodic, pub,
                       failedSend, msgs, thr>>

receive_iteration == \E outcome \in RecvOutcomes : RecvIteration(outcome)

\* The environment: the connection breaks, the server stops or starts.
ConnectionLost ==
    /\ conn = "open"
    /\ conn' = "dead"
    /\ last' = Quiet("env")
    /\ UNCHANGED <<current_states, last_text, ws, serverUp, recvThreads,
                   periodic, pub, failedSend, msgs, thr>>

ServerDown ==
    /\ serverUp
    /\ serverUp' = FALSE
    /\ conn' = IF conn = "open" THEN "dead" ELSE conn
    /\ last' = Quiet("env")
    /\ UNCHANGED <<current_states, last_text, ws, recvThreads, periodic, pub,
                   failedSend, msgs, thr>>

ServerUp ==
    /\ ~serverUp
    /\ serverUp' = TRUE
    /\ last' = Quiet("env")
    /\ UNCHANGED <<current_states, last_text, ws, conn, recvThreads, periodic,
                   pub, failedSend, msgs, thr>>

Next ==
    \/ OnMessage
    \/ on_connect
    \/ periodic_ensure
    \/ periodic_publish
    \/ receive_iteration
    \/ ConnectionLost
    \/ ServerDown
    \/ ServerUp

Spec == Init /\ [][Next]_vars


\* ------------------------------------------------------------------------
\* The interleaved specification: the same code, one statement at a time
\* ------------------------------------------------------------------------
\* In it conn is also "new" (a WebSocket() not yet connected, line 93) and
\* "closed" (after ws.close(), line 88).
Threads == {"M", "P"}

ConcPayloads ==
    { ("send_text" :> VStr(T_Hi)) @@ ("color" :> VStr(T_red)) @@ ("speed" :> VInt(90)),
      ("send_text" :> VStr(T_Hello)) @@ ("color" :> DEFAULTS["color"]) @@ ("speed" :> DEFAULTS["speed"]) }

\* d.items() of the objects above, in their order.
ItemOrder == <<"send_text", "color", "speed">>

Goto(t, loc) == [thr EXCEPT !.pc[t] = loc]

Call(t, fn, back) == [thr EXCEPT !.pc[t] = fn, !.back[t] = back]

Return(t, value) == [thr EXCEPT !.pc[t] = thr.back[t], !.ret[t] = value]

Quiescent == UNCHANGED <<periodic, pub, last, failedSend, msgs>>

\* line 82: if ws
c_test(t) ==
    /\ thr.pc[t] = "c_test"
    /\ thr' = Goto(t, IF ws THEN "c_probe" ELSE "c_new")
    /\ UNCHANGED <<current_states, last_text, ws, conn, serverUp, recvThreads>>
    /\ Quiescent

\* lines 84-86: the ping; it raises when the socket is not open or ws has
\* become None.
c_probe(t) ==
    /\ thr.pc[t] = "c_probe"
    /\ thr' = IF ws /\ conn = "open" THEN Return(t, TRUE) ELSE Goto(t, "c_close")
    /\ UNCHANGED <<current_states, last_text, ws, conn, serverUp, recvThreads>>
    /\ Quiescent

\* lines 87-90: ws.close(), its exceptions ignored
c_close(t) ==
    /\ thr.pc[t] = "c_close"
    /\ conn' = IF ws THEN "closed" ELSE conn
    /\ thr' = Goto(t, "c_null")
    /\ UNCHANGED <<current_states, last_text, ws, serverUp, recvThreads>>
    /\ Quiescent

\* line 91: ws = None
c_null(t) ==
    /\ thr.pc[t] = "c_null"
    /\ ws' = FALSE
    /\ conn' = NoConn
    /\ thr' = Goto(t, "c_new")
    /\ UNCHANGED <<current_states, last_text, serverUp, recvThreads>>
    /\ Quiescent

\* line 93: ws = websocket.WebSocket()
c_new(t) ==
    /\ thr.pc[t] = "c_new"
    /\ ws' = TRUE
    /\ conn' = "new"
    /\ thr' = Goto(t, "c_connect")
    /\ UNCHANGED <<current_states, last_text, serverUp, recvThreads>>
    /\ Quiescent

\* line 94: ws.connect(...) on whatever ws now names; it raises when ws is
\* None or the server is not reachable.
c_connect(t) ==
    /\ thr.pc[t] = "c_connect"
    /\ IF ws /\ serverUp
       THEN conn' = "open" /\ thr' = Goto(t, "c_started")
       ELSE conn' = conn /\ thr' = Goto(t, "c_failed")
    /\ UNCHANGED <<current_states, last_text, ws, serverUp, recvThreads>>
    /\ Quiescent

\* lines 96-97: start the receive loop, return ws
c_started(t) ==
    /\ thr.pc[t] = "c_started"
    /\ recvThreads' = Bump(recvThreads)
    /\ thr' = Return(t, ws)
    /\ UNCHANGED <<current_states, last_text, ws, conn, serverUp>>
    /\ Quiescent

\* lines 98-101: ws = None, return None
c_failed(t) ==
    /\ thr.pc[t] = "c_failed"
    /\ ws' = FALSE
    /\ conn' = NoConn
    /\ thr' = Return(t, FALSE)
    /\ UNCHANGED <<current_states, last_text, serverUp, recvThreads>>
    /\ Quiescent

\* line 104: if not ws_connect()
e_call(t) ==
    /\ thr.pc[t] = "e_call"
    /\ thr' = Call(t, "c_test", "e_check")
    /\ UNCHANGED <<current_states, last_text, ws, conn, serverUp, recvThreads>>
    /\ Quiescent

\* lines 104-106: start_server_once() and the second ws_connect()
e_check(t, comesUp) ==
    /\ thr.pc[t] = "e_check"
    /\ comesUp => (~serverUp /\ ~thr.ret[t])
    /\ serverUp' = (serverUp \/ comesUp)
    /\ thr' = IF thr.ret[t] THEN Goto(t, "e_done") ELSE Call(t, "c_test", "e_done")
    /\ UNCHANGED <<current_states, last_text, ws, conn, recvThreads>>
    /\ Quiescent

\* M, lines 220-222: a flat command arrives; last_text is set.
m_receive(d) ==
    /\ thr.pc["M"] = "idle"
    /\ last_text' = d["send_text"]
    /\ thr' = [Goto("M", "m_update") EXCEPT !.cmd = d, !.todo = ItemOrder]
    /\ UNCHANGED <<current_states, ws, conn, serverUp, recvThreads>>
    /\ Quiescent

\* M, lines 225-227: one turn of the update loop
m_update ==
    /\ thr.pc["M"] = "m_update"
    /\ IF thr.todo = <<>>
       THEN /\ thr' = [Goto("M", "e_call") EXCEPT
                          !.whole = thr.whole \cup {current_states}]
            /\ UNCHANGED current_states
       ELSE /\ thr' = [thr EXCEPT !.todo = Tail(thr.todo)]
            /\ current_states' =
                  IF Head(thr.todo) \in Attrs
                  THEN [current_states EXCEPT ![Head(thr.todo)] = thr.cmd[Head(thr.todo)]]
                  ELSE current_states
    /\ UNCHANGED <<last_text, ws, conn, serverUp, recvThreads>>
    /\ Quiescent

\* M, lines 111-112 of ws_send: if not ws: ws_connect()
s_test ==
    /\ thr.pc["M"] \in {"e_done", "s_test"}
    /\ thr' = IF ws THEN Goto("M", "s_send") ELSE Call("M", "c_test", "s_check")
    /\ UNCHANGED <<current_states, last_text, ws, conn, serverUp, recvThreads>>
    /\ Quiescent

\* M, lines 113-115: if not ws: return
s_check ==
    /\ thr.pc["M"] = "s_check"
    /\ thr' = Goto("M", IF ws THEN "s_send" ELSE "m_publish")
    /\ UNCHANGED <<current_states, last_text, ws, conn, serverUp, recvThreads>>
    /\ Quiescent

\* M, line 116: ws.send(...); a failure is caught and printed (122-123).
s_send ==
    /\ thr.pc["M"] = "s_send"
    /\ thr' = Goto("M", "m_publish")
    /\ UNCHANGED <<current_states, last_text, ws, conn, serverUp, recvThreads>>
    /\ Quiescent

\* M, line 266: publish_states(), then the callback returns
m_publish ==
    /\ thr.pc["M"] = "m_publish"
    /\ thr' = [Goto("M", "idle") EXCEPT !.cmd = EmptyDict]
    /\ UNCHANGED <<current_states, last_text, ws, conn, serverUp, recvThreads>>
    /\ Quiescent

\* P, line 323: ensure_server()
p_start ==
    /\ thr.pc["P"] = "start"
    /\ thr' = Goto("P", "e_call")
    /\ UNCHANGED <<current_states, last_text, ws, conn, serverUp, recvThreads>>
    /\ Quiescent

\* P, lines 325 and 171: publish_states() begins
p_begin ==
    /\ thr.pc["P"] \in {"e_done", "p_sleep"}
    /\ thr' = [Goto("P", "p_attr") EXCEPT
                  !.i = 1,
                  !.snap = [attrs |-> [k \in Attrs |-> NotYet], state |-> current_states,
                            last_text |-> last_text, done |-> FALSE]]
    /\ UNCHANGED <<current_states, last_text, ws, conn, serverUp, recvThreads>>
    /\ Quiescent

\* P, lines 171-174: one attribute is published
p_attr ==
    /\ thr.pc["P"] = "p_attr"
    /\ thr.i <= Len(AttrOrder)
    /\ thr' = [thr EXCEPT !.i = thr.i + 1,
                          !.snap.attrs[AttrOrder[thr.i]] = PyStr(current_states[AttrOrder[thr.i]])]
    /\ UNCHANGED <<current_states, last_text, ws, conn, serverUp, recvThreads>>
    /\ Quiescent

\* P, lines 175-176: the aggregate document and the last text are published
p_aggregate ==
    /\ thr.pc["P"] = "p_attr"
    /\ thr.i > Len(AttrOrder)
    /\ thr' = [Goto("P", "p_sleep") EXCEPT
                  !.snap.state = current_states,
                  !.snap.last_text = last_text,
                  !.snap.done = TRUE]
    /\ UNCHANGED <<current_states, last_text, ws, conn, serverUp, recvThreads>>
    /\ Quiescent

ws_connect_step(t) ==
    \/ c_test(t)
    \/ c_probe(t)
    \/ c_close(t)
    \/ c_null(t)
    \/ c_new(t)
    \/ c_connect(t)
    \/ c_started(t)
    \/ c_failed(t)

ensure_server_step(t) ==
    \/ e_call(t)
    \/ \E comesUp \in BOOLEAN : e_check(t, comesUp)

NextConc ==
    \/ \E t \in Threads : ws_connect_step(t)
    \/ \E t \in Threads : ensure_server_step(t)
    \/ \E d \in ConcPayloads : m_receive(d)
    \/ m_update
    \/ s_test
    \/ s_check
    \/ s_send
    \/ m_publish
    \/ p_start
    \/ p_begin
    \/ p_attr
    \/ p_aggregate
    \/ ConnectionLost
    \/ ServerDown
    \/ ServerUp

SpecConc == Init /\ [][NextConc]_vars

\* ------------------------------------------------------------------------
\* Properties
\* ------------------------------------------------------------------------
IsMessage(key) == last.op = "message" /\ last.key = key

\* The characters of a text payload, a quoted JSON string without its quotes.
Unquoted(raw) == IF Len(raw) >= 2 /\ raw[1] = "\"" /\ raw[Len(raw)] = "\""
                 THEN SubSeq(raw, 2, Len(raw) - 1) ELSE raw

SameLetter(a, b) ==
    \/ a = b
    \/ \E i \in 1..26 : {a, b} = {LowerCase[i], UpperCase[i]}

EqualIgnoringCase(s, t) ==
    Len(s) = Len(t) /\ \A i \in 1..Len(s) : SameLetter(s[i], t[i])

\* The payload reads on, 1 or true, in any mix of upper and lower case.
ReadsTrue(raw) ==
    \E t \in {<<"o","n">>, <<"1">>, <<"t","r","u","e">>} :
        EqualIgnoringCase(Unquoted(raw), t)

\* The commands put on the transport by the last step whose name is c.
SentNamed(c) ==
    {i \in DOMAIN last.wire : last.wire[i]["command"] = VStr(c)}

\* C1 as stated: a power message stores true for exactly the five tokens
\* on, ON, 1, true, TRUE and false for every other token.
C1_FiveTokensOnly ==
    IsMessage("power") =>
        (current_states["power"] = PyTrue
            <=> last.payload.raw \in {<<"o","n">>, <<"O","N">>, <<"1">>,
                                      <<"t","r","u","e">>, <<"T","R","U","E">>})

\* C1 amended: a power message stores the boolean true exactly when the
\* payload (a quoted JSON string read without its quotes) is on, 1 or true in
\* any mix of cases, and the boolean false otherwise.
C1_PowerIgnoresCase ==
    IsMessage("power") =>
        current_states["power"] = (IF ReadsTrue(last.payload.raw) THEN PyTrue ELSE PyFalse)

C1_MixedCaseOn ==
    /\ IsMessage("power")
    /\ last.payload.raw = <<"O","n">>
    /\ current_states["power"] = PyTrue

StructuredHello ==
    Obj(Command(S_send_text, <<VStr(S_textEq \o T_Hello), VStr(<<"c","o","l","o","r","=">> \o T_red)>>))

FlatHello == Obj(("send_text" :> VStr(T_Hello)) @@ ("color" :> VStr(T_red)))

Connected0 == last.conn0 = "open" /\ ~last.lost

\* C2 as stated: with a connected session the structured and the flat Hello
\* command each leave last_text = "Hello" and each transmit a command whose
\* first parameter is "Hello".
C2_BothSendHello ==
    (IsMessage("set") /\ last.payload \in {StructuredHello, FlatHello} /\ Connected0) =>
        /\ last_text = VStr(T_Hello)
        /\ \E i \in DOMAIN last.wire :
              /\ "params" \in DOMAIN last.wire[i]
              /\ last.wire[i]["params"].l[1] = VStr(T_Hello)

IsStructuredText(p) ==
    /\ p.kind = "json" /\ p.v.t = "dict"
    /\ {"command", "params"} \subseteq DOMAIN p.v.d
    /\ p.v.d["command"] = VStr(S_send_text)
    /\ p.v.d["params"].t = "list" /\ p.v.d["params"].l # <<>>
    /\ p.v.d["params"].l[1].t = "str"

IsFlatText(p) ==
    /\ p.kind = "json" /\ p.v.t = "dict"
    /\ "send_text" \in DOMAIN p.v.d
    /\ ~({"command", "params"} \subseteq DOMAIN p.v.d)

\* C2 amended: with a connected session, a structured send_text command
\* whose first parameter is "text=T" leaves last_text = T and is transmitted
\* as received, first parameter "text=T" included; a flat command with
\* send_text T leaves last_text = T and transmits send_text with first
\* parameter T.  Each transmits one command after the liveness probe.
C2_DialectsAgreeOnText ==
    (IsMessage("set") /\ Connected0) =>
        /\ IsStructuredText(last.payload) =>
              LET first == last.payload.v.d["params"].l[1].s
              IN  /\ last.wire = <<PingCommand, last.payload.v.d>>
                  /\ IF Len(first) >= 5 /\ SubSeq(first, 1, 5) = S_textEq
                     THEN S_textEq \o last_text.s = first
                     ELSE last_text.s = first
                  /\ last_text.t = "str"
        /\ IsFlatText(last.payload) =>
              /\ Len(last.wire) = 2
              /\ last.wire[1] = PingCommand
              /\ last.wire[2]["command"] = VStr(S_send_text)
              /\ last.wire[2]["params"].l[1] = last.payload.v.d["send_text"]
              /\ last_text = last.payload.v.d["send_text"]

C2_StructuredHelloSent ==
    /\ IsMessage("set") /\ Connected0
    /\ last.payload = StructuredHello
    /\ last_text = VStr(T_Hello)
    /\ last.wire[2]["params"].l[1] = VStr(S_textEq \o T_Hello)

\* C3 as stated: when ws_send fails while transmitting, the handle is None
\* when it returns.
C3_FailedSendDisconnects ==
    Has(last.ev, "send_failed") => ~ws


\* C4: after a send that failed, an ensure_server that ends with the server
\* reachable leaves the session connected, and the send that follows it,
\* the connection not being lost again under it, puts its command on the
\* transport.
C4_EnsureRecovers ==
    (last.op = "message" /\ last.failed0 /\ Has(last.ev, "ensured")
        /\ serverUp /\ ~last.lost) =>
        /\ ws /\ conn = "open"
        /\ last.ev[Len(last.ev)] = "send_ok"
        /\ last.wire # <<>>
        /\ last.wire[Len(last.wire)] # PingCommand
        /\ ~failedSend

C4_RecoveredStaleHandle ==
    /\ last.op = "message" /\ last.failed0
    /\ last.conn0 = "dead"
    /\ Has(last.ev, "probe_failed") /\ Has(last.ev, "connect_ok")
    /\ last.ev[Len(last.ev)] = "send_ok"

\* The events of the last step's ensure_server call.
EnsureEvents ==
    LET b == CHOOSE i \in DOMAIN last.ev : last.ev[i] = "ensure"
        e == CHOOSE i \in DOMAIN last.ev : last.ev[i] = "ensured"
    IN  SubSeq(last.ev, b + 1, e - 1)

\* C5: an ensure_server call spawns at most once; it spawns exactly when its
\* first ws_connect fails and then calls ws_connect exactly once more; when
\* the first ws_connect succeeds it is the only one and nothing is spawned.
C5_SpawnAtMostOnce ==
    Has(last.ev, "ensure") =>
        LET seg    == EnsureEvents
            calls  == {i \in DOMAIN seg : seg[i] = "ws_connect"}
            spawns == {i \in DOMAIN seg : seg[i] = "spawn"}
            firstEnd == IF spawns = {} THEN Len(seg) + 1
                        ELSE CHOOSE i \in spawns : \A j \in spawns : i <= j
            firstOk  == \E i \in 1..(firstEnd - 1) : seg[i] \in {"probe_ok", "connect_ok"}
        IN  /\ Cardinality(spawns) <= 1
            /\ (spawns = {}) <=> firstOk
            /\ spawns = {} => Cardinality(calls) = 1
            /\ \A sp \in spawns :
                  /\ Cardinality({i \in calls : i < sp}) = 1
                  /\ Cardinality({i \in calls : i > sp}) = 1

C5_SpawnedThenConnected ==
    /\ Has(last.ev, "ensure")
    /\ EnsureEvents = <<"ws_connect", "probe_failed", "connect_fail", "spawn",
                        "ws_connect", "connect_ok">>

\* C8 as stated: at most one receive loop runs in any reachable state.
C8_OneReceiveLoop == recvThreads <= 1

\* C9 as stated: an iteration of a receive loop that meets a transport
\* error ends the loop and leaves the handle None.
C9_ErrorEndsLoop ==
    [][(last'.op = "recv" /\ last'.recv = "error") =>
            (~ws' /\ recvThreads' < recvThreads)]_vars

\* C10: with power true and a connected session, a power message whose token
\* does not read true transmits the clear command with no parameters exactly
\* once, transmits no send_text command, and leaves power = False.
C10_PowerOffClears ==
    (IsMessage("power") /\ last.power0 /\ Connected0 /\ ~ReadsTrue(last.payload.raw)) =>
        /\ Cardinality(SentNamed(S_clear)) = 1
        /\ \A i \in SentNamed(S_clear) : last.wire[i] = Command(S_clear, <<>>)
        /\ SentNamed(S_send_text) = {}
        /\ current_states["power"] = PyFalse

C10_TurnedOff ==
    /\ IsMessage("power") /\ last.power0 /\ Connected0
    /\ last.payload.raw = <<"O","F","F">>
    /\ last.wire = <<PingCommand, Command(S_clear, <<>>)>>
    /\ current_states["power"] = PyFalse


\* A thread is inside ws_connect or ws_send.
InSession(t) ==
    thr.pc[t] \in {"c_test", "c_probe", "c_close", "c_null", "c_new", "c_connect",
                   "c_started", "c_failed", "s_test", "s_check", "s_send"}

\* C6 as stated: what one publish_states call of the periodic task emits is
\* a State Store as it stood between dispatches, and its aggregate document
\* agrees with its per-attribute messages.
C6_SnapshotsAreWhole ==
    thr.snap.done =>
        /\ thr.snap.state \in thr.whole
        /\ \A k \in Attrs : thr.snap.attrs[k] = PyStr(thr.snap.state[k])

\* C7 as stated: while one thread is inside ws_connect or ws_send, no other
\* thread is, and a thread that has reached ws.connect() still finds the
\* handle it has just made.
C7_SessionSerialized ==
    /\ ~(InSession("M") /\ InSession("P"))
    /\ \A t \in Threads : thr.pc[t] = "c_connect" => ws

\* C11 as stated: a message on the set topic of attribute A with payload v
\* publishes a snapshot with snapshot[A] = v (v as text or as the JSON value
\* it reads as); the other attributes and the last text stay as they were.
\* Python's ==, under which True == 1 and False == 0.
PyEq(a, b) == a = b \/ ({a.t, b.t} \subseteq {"int", "bool"} /\ a.n = b.n)

C11_SnapshotHasPayload ==
    \A k \in Attrs : IsMessage(k) =>
        /\ last.published
        /\ \E v \in {json_loads(last.payload), VStr(last.payload.raw)} :
              PyEq(pub.state[k], v)
        /\ \A j \in Attrs \ {k} : pub.state[j] = last.cs0[j]
        /\ pub.last_text = last.lt0 /\ last_text = last.lt0

\* C11 amended: for an attribute other than power the snapshot holds the
\* JSON-decoded payload (the raw text when it is not JSON); for power it
\* holds the boolean the token reads as; the per-attribute message is the
\* string form of that value; the other attributes and the last text stay
\* as they were.
C11_SnapshotHasDecodedValue ==
    \A k \in Attrs : IsMessage(k) =>
        /\ last.published
        /\ pub.state[k] = IF k = "power"
                          THEN (IF ReadsTrue(last.payload.raw) THEN PyTrue ELSE PyFalse)
                          ELSE json_loads(last.payload)
        /\ pub.attrs[k] = PyStr(pub.state[k])
        /\ \A j \in Attrs \ {k} : pub.state[j] = last.cs0[j]
        /\ pub.last_text = last.lt0 /\ last_text = last.lt0

C11_BrightnessFifty ==
    /\ IsMessage("brightness")
    /\ last.payload = TextPayload(<<"5","0">>)
    /\ last.published
    /\ last.cs0["brightness"] = VInt(80)
    /\ last.cs0["color"] = VStr(T_red)
    /\ pub.state["brightness"] = VInt(50)
    /\ pub.attrs["brightness"] = <<"5","0">>
    /\ pub.state["color"] = VStr(T_red)

\* C12 as stated: a message on a topic on_message resolves to no key, or on
\* a subtopic of the command topic whose key is not one of the ten
\* attributes, changes neither the State Store nor the last text and
\* reaches the transport with nothing, not even a connect attempt.
C12_NonAttributeKeysIgnored ==
    (/\ last.op = "message"
     /\ last.key \notin Attrs
     /\ \E m \in Messages :
           /\ m.payload = last.payload
           /\ ResolveKey(m.topic) = last.key
           /\ last.key = NoKey \/ IsSubtopic(m.topic)) =>
        /\ current_states = last.cs0
        /\ last_text = last.lt0
        /\ last.ev = <<>> /\ last.wire = <<>>

\* C12 amended: a message whose key is none of the ten attributes, nor
\* send_text, nor set (a topic resolved to no key; the keys clear and a/b)
\* changes neither the State Store nor the last text and reaches the
\* transport with nothing; nor does it change the connection.
C12_UnhandledKeysIgnored ==
    (last.op = "message" /\ last.key \notin Attrs \cup {"send_text", "set"}) =>
        /\ current_states = last.cs0
        /\ last_text = last.lt0
        /\ last.ev = <<>> /\ last.wire = <<>>
        /\ conn = last.conn0 /\ ~last.lost

C12_ClearKeyIgnored ==
    /\ IsMessage("clear")
    /\ last.published
    /\ last.ev = <<>> /\ last.wire = <<>>
    /\ last.cs0["power"] = PyTrue
    /\ current_states["power"] = PyTrue
    /\ ws /\ conn = "open"

\* C13: on a session whose handle is set and whose socket is open, two
\* ws_connect calls one after the other each send the ping and return the
\* handle: no socket is opened, no receive loop is started, and the handle
\* and its socket are the ones there were before.
C13_ProbeTwiceNoReconnect ==
    (ws /\ conn = "open") =>
        LET X1 == ws_connect(Transport)
            X2 == ws_connect(X1)
        IN  /\ X1.ret /\ X2.ret
            /\ X2.ev = <<"ws_connect", "probe_ok", "ws_connect", "probe_ok">>
            /\ X2.wire = <<PingCommand, PingCommand>>
            /\ X2.ws /\ X2.conn = "open"
            /\ X2.threads = recvThreads
            /\ X2.up = serverUp

\* A connected session is probed by the periodic task right after a handler
\* probed or made it.
C13_ProbedAgain ==
    /\ last.op = "periodic_ensure"
    /\ last.conn0 = "open"
    /\ last.ev = <<"ensure", "ws_connect", "probe_ok", "ensured">>
    /\ last.wire = <<PingCommand>>
    /\ ws /\ conn = "open"
    /\ recvThreads = 1

\* The payload is an object with a command name and a parameter list.
IsStructured(p) ==
    /\ p.kind = "json" /\ p.v.t = "dict"
    /\ {"command", "params"} \subseteq DOMAIN p.v.d
    /\ p.v.d["params"].t = "list"

\* C14 as stated: with a connected session, every object on the command
\* topic that carries a command name and a parameter list is put on the
\* transport as it is, whatever the name and the list.
C14_EveryCommandForwarded ==
    (IsMessage("set") /\ IsStructured(last.payload) /\ Connected0) =>
        \E i \in DOMAIN last.wire : last.wire[i] = last.payload.v.d

\* C15 as stated: every call of handle_set_payload reaches publish_states.
C15_AlwaysPublishes ==
    (last.op = "message" /\ last.key # NoKey) => last.published

\* C16 as stated: a message with key send_text records its payload as the
\* last text; when power is true it ensures a session and what it puts on
\* the transport, the probe aside, is send_text with the text alone; when
\* power is not true it reaches the transport with nothing, not even a
\* connect attempt.
C16_TextSentIffPowerTrue ==
    IsMessage("send_text") =>
        LET cmd == Command(S_send_text, <<last_text>>)
        IN  /\ last_text = json_loads(last.payload)
            /\ last.cs0["power"] # PyTrue =>
                  (last.ev = <<>> /\ last.wire = <<>>)
            /\ last.cs0["power"] = PyTrue =>
                  /\ Has(last.ev, "ensure")
                  /\ \A i \in DOMAIN last.wire : last.wire[i] \in {PingCommand, cmd}
                  /\ Has(last.ev, "send_ok") =>
                        last.wire[Len(last.wire)] = cmd

\* C17: a flat command stores every attribute field it carries and leaves
\* the other attributes alone, records its text, ensures a session, and
\* what it puts on the transport, the probe aside, is one send_text whose
\* parameters are the text and then k=value for color, speed, animation,
\* font, matrix_height in that order, the value being the payload's when
\* the payload has the field and the store's otherwise, and the entry
\* being left out when that value is None.
C17_FlatCommandCanonical ==
    (IsMessage("set") /\ IsFlatText(last.payload)) =>
        LET d       == last.payload.v.d
            val(k)  == IF k \in DOMAIN d THEN d[k] ELSE last.cs0[k]
            kept    == SelectSeq(param_keys, LAMBDA k : val(k) # VNone)
            entries == [i \in DOMAIN kept |->
                          VStr(KeyChars(kept[i]) \o <<"=">> \o PyStr(val(kept[i])))]
            cmd     == Command(S_send_text, <<d["send_text"]>> \o entries)
        IN  /\ \A k \in Attrs : current_states[k] = val(k)
            /\ last_text = d["send_text"]
            /\ Has(last.ev, "ensure")
            /\ \A i \in DOMAIN last.wire : last.wire[i] \in {PingCommand, cmd}
            /\ Cardinality({i \in DOMAIN last.wire : last.wire[i] = cmd}) <= 1
            /\ Has(last.ev, "send_ok") =>
                  last.wire[Len(last.wire)] = cmd

\* {"send_text":"Hi","power":"OFF","speed":null} sent after the color was
\* set to null: neither speed nor color has an entry.
C17_NoneLeftOut ==
    /\ IsMessage("set")
    /\ last.payload = Obj(("send_text" :> VStr(T_Hi)) @@ ("power" :> VStr(<<"O","F","F">>))
                            @@ ("speed" :> VNone))
    /\ last.cs0["color"] = VNone
    /\ last.cs0["speed"] = VInt(75)
    /\ current_states["color"] = VNone
    /\ current_states["speed"] = VNone
    /\ last.wire = <<Command(S_send_text,
                       <<VStr(T_Hi),
                         VStr(<<"a","n","i","m","a","t","i","o","n","=","1">>),
                         VStr(<<"f","o","n","t","=","g","n","u","f","o","n","t">>),
                         VStr(<<"m","a","t","r","i","x","_","h","e","i","g","h","t","=","1","6">>)>>)>>

\* C18: the State Store, and the aggregate document published from it, has
\* exactly the ten keys of DEFAULTS.
C18_KeySetFixed ==
    /\ DOMAIN current_states = Attrs
    /\ DOMAIN pub.state = Attrs

\* A flat command that carries a key the store does not have has been
\* merged.
C18_ForeignKeyNotStored ==
    /\ IsMessage("set")
    /\ last.payload = FlatHello
    /\ last.published
    /\ current_states["color"] = VStr(T_red)
    /\ "send_text" \notin DOMAIN current_states

\* C19 as stated: the last text, and what is handed to the last-text
\* topic, is a string.
C19_LastTextIsString ==
    last_text.t = "str" /\ pub.last_text.t = "str"

\* C20 as stated: the stored power value is a boolean.
C20_PowerIsBoolean ==
    current_states["power"].t = "bool"

=============================================================================
